---------------------------- MODULE Spec2Model ----------------------------
(***************************************************************************)
(* js2ics: raw calendar options -> Validator -> canonical options ->       *)
(* Formatter -> iCalendar text -> (createCalendar only) fs.writeFile.      *)
(*                                                                         *)
(* Two copies of the library are modelled, selected by the variable build: *)
(*   "index"    src/index.js, lines 212-366 (the module.exports in force)  *)
(*   "part_000" src/unnamed/part_000                                       *)
(* Operators without a suffix model src/index.js; operators with the       *)
(* suffix _part000 model the code of part_000 where it differs.            *)
(*                                                                         *)
(* A JavaScript value is a record tagged by its type.  A string is a       *)
(* sequence of lines (the pieces between line breaks), a line a sequence   *)
(* of tokens; tokens are atoms of a uniquely decodable alphabet, so two    *)
(* strings are equal iff their token sequences are.                        *)
(***************************************************************************)
EXTENDS Integers, Sequences, FiniteSets

VARIABLES build, now, pc, call, result, pendingWrite, cbLog

vars == <<build, now, pc, call, result, pendingWrite, cbLog>>

(* ------------------------------ bounds -------------------------------- *)
MaxClock == 1
MaxEvents == 2
MaxAttendees == 2

(* --------------------------- JavaScript values ------------------------- *)
UNDEF == [t |-> "undefined"]
NULL == [t |-> "null"]
THROWN == [t |-> "TypeError"]
Bool(b) == [t |-> "boolean", b |-> b]
Str(s) == [t |-> "string", s |-> s]
List(l) == [t |-> "array", l |-> l]
Obj(f) == [t |-> "object", f |-> f]

\* a one-token, one-line string; the empty string is one empty line
T(tok) == << <<tok>> >>
EMPTY == << <<>> >>

\* string concatenation (+ and template literals): the last line of a
\* continues with the first line of b
Concat(a, b) ==
  SubSeq(a, 1, Len(a) - 1) \o << a[Len(a)] \o b[1] >> \o SubSeq(b, 2, Len(b))

\* String(v), as a template literal converts an interpolated value
toStr(v) ==
  CASE v.t = "string" -> v.s
    [] v.t = "undefined" -> T("undefined")
    [] v.t = "null" -> T("null")
    [] v.t = "boolean" -> IF v.b THEN T("true") ELSE T("false")
    [] v.t = "array" -> T("[array]")
    [] OTHER -> T("[object Object]")

\* ToBoolean(v)
Truthy(v) ==
  CASE v.t \in {"undefined", "null"} -> FALSE
    [] v.t = "boolean" -> v.b
    [] v.t = "string" -> v.s # EMPTY
    [] OTHER -> TRUE

\* a || b
Or(a, b) == IF Truthy(a) THEN a ELSE b

\* o.k : a TypeError on null and undefined, undefined for a missing property
Get(o, k) ==
  IF o.t \in {"undefined", "null"} THEN THROWN
  ELSE IF o.t = "object" /\ k \in DOMAIN o.f THEN o.f[k]
  ELSE UNDEF

\* _.join(parts, SYSTEM_LINE_BREAK) over a sequence of strings: the lines of
\* the parts one after the other; '' for no part
RECURSIVE JoinLines(_)
JoinLines(parts) ==
  IF Len(parts) = 0 THEN <<>> ELSE Head(parts) \o JoinLines(Tail(parts))

Join(parts) == IF Len(parts) = 0 THEN EMPTY ELSE JoinLines(parts)

\* _.endsWith(string, '.ics') on a string value
endsWithIcs(v) ==
  /\ v.t = "string"
  /\ LET last == v.s[Len(v.s)] IN Len(last) > 0 /\ last[Len(last)] = ".ics"

(* ------------------------------ System stuff --------------------------- *)
TMPDIR == T("/tmp")
guessedTimezone == Str(T("Europe/Paris"))
\* the host: its zone as tz.guess() reports it, and that zone's offset from
\* UTC in hours
Host == [zone |-> guessedTimezone, hours |-> 1]
HostOffset == Host.hours

(* ------------------------------ Configuration -------------------------- *)
DEFAULT_EVENT_NAME == Str(T("New Event"))
DEFAULT_FILE_NAME == Str(<< <<"calendar-event", ".ics">> >>)
DEFAULT_ATTENDEE_RSVP == Bool(FALSE)

(* ------------------------------ moment --------------------------------- *)
HH == <<"00", "01", "02", "03", "04", "05", "06", "07", "08", "09", "10", "11",
        "12", "13", "14", "15", "16", "17", "18", "19", "20", "21", "22", "23">>

HourOf(hh) == (CHOOSE i \in 1..Len(HH) : HH[i] = hh) - 1

OffsetHours(z) ==
  IF z = "+01:00" THEN 1 ELSE 3

\* a string in inputTimeFormat 'YYYY-MM-DDTHH:mm:ssZ': wall-clock hour hh at
\* UTC offset z
IsoString(h, z) == Str(<< <<"2020-01-01T", HH[h + 1], ":00:00", z>> >>)

\* a string in icalTimeFormat 'YYYYMMDDTHHmmss': wall-clock hour h
icalTimeFormat(h) == Str(<< <<"20200101T", HH[h + 1], "0000">> >>)

InvalidMoment == [valid |-> FALSE, utc |-> 0]

\* moment(string, inputTimeFormat), forgiving mode: the instant (UTC hour)
\* the string names.  A string with an offset is read at that offset; a
\* string without one (the canonical form itself: the separators of the
\* format are skipped) is read as host-local time; anything else is invalid.
momentParse(v) ==
  IF v.t # "string" \/ Len(v.s) # 1 THEN InvalidMoment
  ELSE LET l == v.s[1] IN
    IF Len(l) = 4 /\ l[1] = "2020-01-01T" /\ l[3] = ":00:00"
    THEN [valid |-> TRUE, utc |-> HourOf(l[2]) - OffsetHours(l[4])]
    ELSE IF Len(l) = 3 /\ l[1] = "20200101T" /\ l[3] = "0000"
    THEN [valid |-> TRUE, utc |-> HourOf(l[2]) - HostOffset]
    ELSE InvalidMoment

\* m.format(icalTimeFormat): host-local wall clock, 'Invalid date' otherwise
momentFormat(m) ==
  IF m.valid THEN icalTimeFormat(m.utc + HostOffset) ELSE Str(T("Invalid date"))

\* moment().add(hours, 'h') at clock instant clock; add(undefined) adds nothing
momentNowPlus(clock, hours) ==
  [valid |-> TRUE, utc |-> clock + (IF hours = UNDEF THEN 0 ELSE hours.n)]


(* ------------------------------ path ----------------------------------- *)
\* path.join(TMPDIR, name): a TypeError unless name is a string
pathJoin(dir, name) ==
  IF name.t # "string" THEN THROWN
  ELSE Str(Concat(Concat(dir, T("/")), name.s))

(* ------------------------------ Formatters ----------------------------- *)
timeProperty(name, dtstamp, timezone) ==
  Concat(Concat(Concat(Concat(T(name), T(";TZID=")), toStr(timezone)), T(":")),
         toStr(dtstamp))

calendarHeader == Join(<<T("BEGIN:VCALENDAR"), T("VERSION:2.0")>>)

calendarFooter == T("END:VCALENDAR")

eventHeader(dtstamp, timeZone) ==
  Join(<<EMPTY, T("BEGIN:VEVENT"), timeProperty("DTSTAMP", dtstamp, timeZone)>>)

eventFooter == T("END:VEVENT")

ICAL_organizer(organizer) ==
  Concat(Concat(Concat(T("ORGANIZER;CN="), toStr(Get(organizer, "name"))),
                T(":MAILTO:")), toStr(Get(organizer, "email")))

ICAL_attendee(attendee) ==
  Concat(Concat(Concat(Concat(Concat(T("ATTENDEE;CN=\""),
    toStr(Get(attendee, "name"))), T("\";RSVP=")), toStr(Get(attendee, "rsvp"))),
    T(":MAILTO:")), toStr(Get(attendee, "email")))

ICAL_dtstart(dtstamp, timeZone) == timeProperty("DTSTART", dtstamp, timeZone)

ICAL_dtend(dtstamp, timeZone) == timeProperty("DTEND", dtstamp, timeZone)

ICAL_location(location) == Concat(T("LOCATION:"), toStr(location))

ICAL_description(description) == Concat(T("DESCRIPTION:"), toStr(description))

ICAL_summary(summary) == Concat(T("SUMMARY:"), toStr(summary))

(* ------------------------------ Validator ------------------------------ *)
Num(n) == [t |-> "number", n |-> n]

validateDateStamp(dtstamp, hoursToAddIfEmpty, clock) ==
  IF Truthy(dtstamp)
  THEN momentFormat(momentParse(dtstamp))
  ELSE momentFormat(momentNowPlus(clock, hoursToAddIfEmpty))

validateDateStart(dtstart, clock) == validateDateStamp(dtstart, Num(0), clock)

\* mutant: the default end without the hour
validateDateEnd_noHour(dtend, clock) == validateDateStamp(dtend, Num(0), clock)

validateDateEnd(dtend, clock) == validateDateStamp(dtend, Num(1), clock)

\* mutant: a person is accepted on its email alone
isValidPerson_emailOnly(person) ==
  Truthy(person) /\ Truthy(Get(person, "email"))

isValidPerson(person) ==
  Truthy(person) /\ Truthy(Get(person, "email")) /\ Truthy(Get(person, "name"))

validateOrganizer(organizer) ==
  IF isValidPerson(organizer) THEN organizer ELSE Bool(FALSE)

validAttendee(attendee) ==
  Obj([email |-> Get(attendee, "email"),
       name |-> Get(attendee, "name"),
       rsvp |-> Or(Get(attendee, "rsvp"), DEFAULT_ATTENDEE_RSVP)])

\* _(attendees).filter(isValidPerson).map(...).value(): no element for a
\* missing list
validateAttendees(attendees) ==
  IF attendees.t # "array" THEN List(<<>>)
  ELSE LET kept == SelectSeq(attendees.l, isValidPerson)
       IN List([i \in 1..Len(kept) |-> validAttendee(kept[i])])

validateFilePath(fileName, filePath) ==
  IF Truthy(filePath) THEN filePath
  ELSE IF ~Truthy(fileName) THEN pathJoin(TMPDIR, DEFAULT_FILE_NAME)
  ELSE LET validFileName ==
             IF endsWithIcs(fileName) THEN fileName
             ELSE Str(Concat(toStr(fileName), T(".ics")))
       IN pathJoin(TMPDIR, validFileName)

validateEventOptions(eventOptions, clock) ==
  IF Get(eventOptions, "dtstamp") = THROWN THEN THROWN
  ELSE Obj([dtstamp |-> validateDateStamp(Get(eventOptions, "dtstamp"), UNDEF, clock),
            organizer |-> validateOrganizer(Get(eventOptions, "organizer")),
            dtstart |-> validateDateStart(Get(eventOptions, "dtstart"), clock),
            dtend |-> validateDateEnd(Get(eventOptions, "dtend"), clock),
            summary |-> Or(Get(eventOptions, "eventName"), DEFAULT_EVENT_NAME),
            description |-> Or(Get(eventOptions, "description"), Str(EMPTY)),
            location |-> Or(Get(eventOptions, "location"), Bool(FALSE)),
            attendees |-> validateAttendees(Get(eventOptions, "attendees"))])

AnyThrown(seq) == \E i \in 1..Len(seq) : seq[i] = THROWN

\* mutant: an empty list gets the default event too
validatedEvents_emptyToo(events, clock) ==
  IF Truthy(events) /\ events.t = "array" /\ Len(events.l) > 0
  THEN [i \in 1..Len(events.l) |-> validateEventOptions(events.l[i], clock)]
  ELSE <<validateEventOptions(Obj(<<>>), clock)>>

\* calendarOptions.events ? _.map(events, validateEventOptions)
\*                        : [ validateEventOptions({}) ]
validatedEvents(events, clock) ==
  IF Truthy(events)
  THEN IF events.t = "array"
       THEN [i \in 1..Len(events.l) |-> validateEventOptions(events.l[i], clock)]
       ELSE <<>>
  ELSE <<validateEventOptions(Obj(<<>>), clock)>>

validateCalendarOptions(calendarOptions, filePath, clock) ==
  IF Truthy(Get(calendarOptions, "isValid")) THEN calendarOptions
  ELSE LET path == validateFilePath(Get(calendarOptions, "filename"), filePath)
           events == validatedEvents(Get(calendarOptions, "events"), clock)
       IN IF path = THROWN \/ AnyThrown(events) THEN THROWN
          ELSE Obj([filePath |-> path,
                    events |-> List(events),
                    timeZone |-> Or(Get(calendarOptions, "timeZone"), guessedTimezone)])

(* ------------------------------ Formatter ------------------------------ *)
formatCalendar(formattedEvents) ==
  Join(<<calendarHeader, formattedEvents, calendarFooter>>)

\* mutant: the organizer pushed after the attendees
formatEventParts_organizerLate(event, options) ==
  LET timeZone == Get(options, "timeZone")
      organizer == Get(event, "organizer")
      attendees == Get(event, "attendees")
      location == Get(event, "location")
  IN <<eventHeader(Get(event, "dtstamp"), timeZone)>>
     \o (IF Truthy(attendees) /\ attendees.t = "array"
         THEN [i \in 1..Len(attendees.l) |-> ICAL_attendee(attendees.l[i])]
         ELSE <<>>)
     \o (IF Truthy(organizer) THEN <<ICAL_organizer(organizer)>> ELSE <<>>)
     \o <<ICAL_dtstart(Get(event, "dtstart"), timeZone),
          ICAL_dtend(Get(event, "dtend"), timeZone)>>
     \o (IF Truthy(location) THEN <<ICAL_location(location)>> ELSE <<>>)
     \o <<ICAL_description(Get(event, "description")),
          ICAL_summary(Get(event, "summary")),
          eventFooter>>

\* the elements pushed on parts, in order; attendees are walked by _.each
formatEventParts(event, options) ==
  LET timeZone == Get(options, "timeZone")
      organizer == Get(event, "organizer")
      attendees == Get(event, "attendees")
      location == Get(event, "location")
  IN <<eventHeader(Get(event, "dtstamp"), timeZone)>>
     \o (IF Truthy(organizer) THEN <<ICAL_organizer(organizer)>> ELSE <<>>)
     \o (IF Truthy(attendees) /\ attendees.t = "array"
         THEN [i \in 1..Len(attendees.l) |-> ICAL_attendee(attendees.l[i])]
         ELSE <<>>)
     \o <<ICAL_dtstart(Get(event, "dtstart"), timeZone),
          ICAL_dtend(Get(event, "dtend"), timeZone)>>
     \o (IF Truthy(location) THEN <<ICAL_location(location)>> ELSE <<>>)
     \o <<ICAL_description(Get(event, "description")),
          ICAL_summary(Get(event, "summary")),
          eventFooter>>

\* destructuring a null event, or reading attendee.name of a null attendee,
\* is a TypeError
formatEventThrows(event) ==
  \/ Get(event, "dtstamp") = THROWN
  \/ LET attendees == Get(event, "attendees")
     IN /\ Truthy(attendees) /\ attendees.t = "array"
        /\ \E i \in 1..Len(attendees.l) : Get(attendees.l[i], "name") = THROWN

formatEvent(event, options) ==
  IF formatEventThrows(event) THEN THROWN
  ELSE Str(Join(formatEventParts(event, options)))

\* _(events).map(format).join(SYSTEM_LINE_BREAK): '' for a missing list
formattedEventsOf(texts) ==
  IF AnyThrown(texts) THEN THROWN
  ELSE Str(Join([i \in 1..Len(texts) |-> texts[i].s]))

getCalendar(calendarOptions, clock) ==
  LET validatedCalendarOptions == validateCalendarOptions(calendarOptions, UNDEF, clock)
  IN IF validatedCalendarOptions = THROWN THEN THROWN
     ELSE LET events == Get(validatedCalendarOptions, "events")
              texts == IF events.t = "array"
                       THEN [i \in 1..Len(events.l) |->
                               formatEvent(events.l[i], validatedCalendarOptions)]
                       ELSE <<>>
              formattedEvents == formattedEventsOf(texts)
          IN IF formattedEvents = THROWN THEN THROWN
             ELSE Str(formatCalendar(formattedEvents.s))

(* ------------------------------ File sink ------------------------------ *)
NoWrite == [state |-> "none", path |-> UNDEF, data |-> UNDEF]

\* fs.writeFile(filePath, data, cb) as toFile starts it: a TypeError, thrown
\* synchronously, for a path that is not a string; a pending write otherwise
toFile(data, filePath) ==
  IF filePath.t # "string" THEN THROWN
  ELSE [state |-> "pending", path |-> filePath, data |-> data]

\* the arguments toFile's completion handler (err, destination) passes to
\* callback
toFileCompletion(err, destination) ==
  IF Truthy(err) THEN <<err>> ELSE <<NULL, destination>>

(* ------------------- src/unnamed/part_000, where it differs ------------ *)
\* the module-level timezone, momenttz.tz.guess()
timezone_part000 == guessedTimezone

timeProperty_part000(name, dtstamp) == timeProperty(name, dtstamp, timezone_part000)

validateFilePath_part000(fileName, filePath) ==
  IF Truthy(filePath) THEN filePath
  ELSE LET validFileName ==
             IF endsWithIcs(Or(fileName, DEFAULT_FILE_NAME)) THEN fileName
             ELSE Str(Concat(toStr(fileName), T(".ics")))
       IN pathJoin(TMPDIR, validFileName)

validateCalendarOptions_part000(calendarOptions, filePath, clock) ==
  IF Truthy(Get(calendarOptions, "isValid")) THEN calendarOptions
  ELSE LET path == validateFilePath_part000(Get(calendarOptions, "filename"), filePath)
           events == validatedEvents(Get(calendarOptions, "events"), clock)
       IN IF path = THROWN \/ AnyThrown(events) THEN THROWN
          ELSE Obj([filePath |-> path, events |-> List(events)])

\* formatEvent(validatedOptions): the lines of formatEvent of src/index.js
\* with every time property built by timeProperty_part000
formatEvent_part000(validatedOptions) ==
  IF formatEventThrows(validatedOptions) THEN THROWN
  ELSE Str(Join(formatEventParts(validatedOptions,
                                 Obj([timeZone |-> timezone_part000]))))

getCalendar_part000(calendarOptions, clock) ==
  LET validatedCalendarOptions ==
        validateCalendarOptions_part000(calendarOptions, UNDEF, clock)
  IN IF validatedCalendarOptions = THROWN THEN THROWN
     ELSE LET events == Get(validatedCalendarOptions, "events")
              texts == IF events.t = "array"
                       THEN [i \in 1..Len(events.l) |-> formatEvent_part000(events.l[i])]
                       ELSE <<>>
              formattedEvents == formattedEventsOf(texts)
          IN IF formattedEvents = THROWN THEN THROWN
             ELSE Str(formatCalendar(formattedEvents.s))

(* ------------------------------ the builds ----------------------------- *)
Builds == {"index", "part_000"}

validateFilePathOf(b, fileName, filePath) ==
  IF b = "index" THEN validateFilePath(fileName, filePath)
  ELSE validateFilePath_part000(fileName, filePath)

getCalendarOf(b, calendarOptions, clock) ==
  IF b = "index" THEN getCalendar(calendarOptions, clock)
  ELSE getCalendar_part000(calendarOptions, clock)

validateCalendarOptionsOf(b, calendarOptions, filePath, clock) ==
  IF b = "index" THEN validateCalendarOptions(calendarOptions, filePath, clock)
  ELSE validateCalendarOptions_part000(calendarOptions, filePath, clock)

(* ------------------------------ inputs --------------------------------- *)
\* persons: complete, without email, with rsvp true, with an empty name, null
PersonA == Obj([name |-> Str(T("A")), email |-> Str(T("a@x.com"))])
PersonB == Obj([name |-> Str(T("B"))])
PersonC == Obj([name |-> Str(T("C")), email |-> Str(T("c@x.com")), rsvp |-> Bool(TRUE)])
PersonD == Obj([name |-> Str(EMPTY), email |-> Str(T("d@x.com")), rsvp |-> Bool(FALSE)])

AttendeePool == {PersonA, PersonB, PersonC, PersonD, NULL}

SeqsUpTo(S, n) == UNION {[1..k -> S] : k \in 0..n}

AttendeeLists == {List(l) : l \in SeqsUpTo(AttendeePool, MaxAttendees)}

\* dtstamp, dtstart, dtend as supplied: all absent; ISO strings (one at the
\* host's offset, two at another); a malformed start
DateInputs ==
  { [dtstamp |-> UNDEF, dtstart |-> UNDEF, dtend |-> UNDEF],
    [dtstamp |-> IsoString(9, "+01:00"), dtstart |-> IsoString(12, "+03:00"),
     dtend |-> IsoString(14, "+03:00")],
    [dtstamp |-> UNDEF, dtstart |-> Str(T("tomorrow")), dtend |-> NULL] }

Descriptions == {UNDEF, Str(T("text")), Str(<< <<"first line">>, <<"second line">> >>)}

RawEvent(d, eventName, description, location, organizer, attendees) ==
  Obj([dtstamp |-> d.dtstamp, dtstart |-> d.dtstart, dtend |-> d.dtend,
       eventName |-> eventName, description |-> description,
       location |-> location, organizer |-> organizer, attendees |-> attendees])

\* every combination of the scalar fields, with two attendee lists
FieldEvents ==
  { RawEvent(d, n, dsc, loc, org, att) :
      d \in DateInputs, n \in {UNDEF, Str(T("X"))}, dsc \in Descriptions,
      loc \in {UNDEF, Str(T("Room 1"))}, org \in {UNDEF, PersonA, PersonB},
      att \in {UNDEF, List(<<PersonA, PersonB>>)} }

\* every attendee list, on an otherwise default event
AttendeeEvents ==
  { RawEvent([dtstamp |-> UNDEF, dtstart |-> UNDEF, dtend |-> UNDEF],
             UNDEF, UNDEF, UNDEF, UNDEF, att) : att \in AttendeeLists }

\* a canonical event, as validateEventOptions builds one
CanonicalEvent ==
  Obj([dtstamp |-> icalTimeFormat(9), organizer |-> PersonA,
       dtstart |-> icalTimeFormat(10), dtend |-> icalTimeFormat(11),
       summary |-> Str(T("Y")), description |-> Str(EMPTY),
       location |-> Bool(FALSE), attendees |-> List(<<validAttendee(PersonC)>>)])

\* events of lists longer than one: null, {}, named, with attendees, canonical
ListEvents ==
  { NULL, Obj(<<>>),
    RawEvent([dtstamp |-> UNDEF, dtstart |-> UNDEF, dtend |-> UNDEF],
             Str(T("X")), Str(EMPTY), UNDEF, UNDEF, NULL),
    RawEvent([dtstamp |-> UNDEF, dtstart |-> UNDEF, dtend |-> UNDEF],
             UNDEF, UNDEF, UNDEF, PersonA, List(<<PersonC, PersonC>>)),
    CanonicalEvent }

EventLists ==
  {UNDEF, NULL}
    \cup {List(l) : l \in SeqsUpTo(ListEvents, MaxEvents)}
    \cup {List(<<e>>) : e \in FieldEvents \cup AttendeeEvents}

ShortEventLists == {UNDEF, NULL} \cup {List(l) : l \in SeqsUpTo(ListEvents, MaxEvents)}

TimeZones == {UNDEF, Str(T("Asia/Tokyo"))}

FileNames == {UNDEF, Str(T("foo")), Str(<< <<"foo", ".ics">> >>)}

\* the explicit filePath argument: none, a writable one, an unwritable one
FilePaths == {UNDEF, Str(T("/out/a.ics")), Str(T("/readonly/a.ics"))}

Markers == {UNDEF, Bool(TRUE)}

RawOptions(filename, timeZone, events, isValid, filePath) ==
  Obj([filename |-> filename, timeZone |-> timeZone, events |-> events,
       isValid |-> isValid, filePath |-> filePath])

\* options getCalendar is called with
GetInputs ==
  { RawOptions(fn, tz, evs, mk, UNDEF) :
      fn \in {UNDEF, Str(T("foo"))}, tz \in TimeZones, evs \in EventLists,
      mk \in Markers }

\* options createCalendar is called with; a marked structure may carry the
\* filePath of a canonical one
CreateInputs ==
  { RawOptions(fn, tz, evs, mk, fp) :
      fn \in FileNames, tz \in TimeZones, evs \in ShortEventLists, mk \in Markers,
      fp \in {UNDEF, Str(T("/out/pre.ics"))} }

(* ------------------------------ state machine -------------------------- *)
NoCall == [op |-> "none", options |-> UNDEF, filePath |-> UNDEF]

InitState ==
  /\ now = 0
  /\ pc = "idle"
  /\ call = NoCall
  /\ result = UNDEF
  /\ pendingWrite = NoWrite
  /\ cbLog = <<>>

\* src/index.js is loaded
Init == build = "index" /\ InitState

\* either copy of the library is loaded
InitBuilds == build \in Builds /\ InitState

\* the clock advances between calls
Tick ==
  /\ pc = "idle"
  /\ now < MaxClock
  /\ now' = now + 1
  /\ UNCHANGED <<build, pc, call, result, pendingWrite, cbLog>>

\* getCalendar(calendarOptions): returns the text or throws
GetCalendar ==
  /\ pc = "idle"
  /\ \E options \in GetInputs :
       /\ call' = [op |-> "getCalendar", options |-> options, filePath |-> UNDEF]
       /\ result' = getCalendarOf(build, options, now)
  /\ pc' = "done"
  /\ UNCHANGED <<build, now, pendingWrite, cbLog>>

\* createCalendar(calendarOptions, filePath, callback): validates, renders
\* the validated options with getCalendar, and hands the text to toFile;
\* it throws, or starts the write and returns undefined
CreateCalendar ==
  /\ pc = "idle"
  /\ \E options \in CreateInputs, filePath \in FilePaths :
     \E validatedCalendarOptions \in
          {validateCalendarOptionsOf(build, options, filePath, now)} :
     \E data \in {IF validatedCalendarOptions = THROWN THEN THROWN
                  ELSE getCalendarOf(build, validatedCalendarOptions, now)} :
     \E started \in {IF data = THROWN THEN THROWN
                     ELSE toFile(data, Get(validatedCalendarOptions, "filePath"))} :
       /\ call' = [op |-> "createCalendar", options |-> options, filePath |-> filePath]
       /\ IF started = THROWN
          THEN /\ result' = THROWN
               /\ pendingWrite' = NoWrite
               /\ pc' = "done"
          ELSE /\ result' = UNDEF
               /\ pendingWrite' = started
               /\ pc' = "writing"
  /\ UNCHANGED <<build, now, cbLog>>

\* the paths the file system refuses
Unwritable(path) == path.s[1][1] = "/readonly/a.ics"

IOError == Obj([code |-> Str(T("EACCES"))])

\* fs.writeFile completes without error: its callback gets (null), and
\* toFile's handler calls callback(null, destination)
WriteSucceeds ==
  /\ pc = "writing"
  /\ ~Unwritable(pendingWrite.path)
  /\ cbLog' = Append(cbLog, toFileCompletion(NULL, UNDEF))
  /\ pendingWrite' = [pendingWrite EXCEPT !.state = "written"]
  /\ pc' = "done"
  /\ UNCHANGED <<build, now, call, result>>

\* fs.writeFile fails: toFile's handler calls callback(err)
WriteFails ==
  /\ pc = "writing"
  /\ cbLog' = Append(cbLog, toFileCompletion(IOError, UNDEF))
  /\ pendingWrite' = [pendingWrite EXCEPT !.state = "failed"]
  /\ pc' = "done"
  /\ UNCHANGED <<build, now, call, result>>

\* the call is over; the next one starts from a clean slate
Return ==
  /\ pc = "done"
  /\ pc' = "idle"
  /\ call' = NoCall
  /\ result' = UNDEF
  /\ pendingWrite' = NoWrite
  /\ cbLog' = <<>>
  /\ UNCHANGED <<build, now>>

Next ==
  \/ Tick
  \/ GetCalendar
  \/ CreateCalendar
  \/ WriteSucceeds
  \/ WriteFails
  \/ Return

Spec == Init /\ [][Next]_vars

SpecBuilds == InitBuilds /\ [][Next]_vars

(* ======================================================================= *)
(*                               properties                                *)
(* ======================================================================= *)
Unmarked(options) == ~Truthy(Get(options, "isValid"))

\* getCalendar has returned a text
GotText == call.op = "getCalendar" /\ pc = "done" /\ result.t = "string"

\* createCalendar has handed a text to the file write
WriteStarted == call.op = "createCalendar" /\ pendingWrite.state # "none"

\* the first token of a line; "" for the empty line
Kind(line) == IF Len(line) = 0 THEN "" ELSE line[1]

Kinds(lines) == [i \in 1..Len(lines) |-> Kind(lines[i])]

CountLines(lines, line) == Cardinality({i \in 1..Len(lines) : lines[i] = line})

\* the raw events of the call, when a list was supplied
RawEvents == LET events == Get(call.options, "events")
             IN IF events.t = "array" THEN events.l ELSE <<>>

(* ----------------------------------------------------------------------- *)
\* C1: for raw options without the isValid marker, the text createCalendar
\* hands to the file write is the text getCalendar returns for the same
\* options at the same clock; in particular every event supplied with a
\* non-empty eventName X has its line SUMMARY:X in the written text.
C1_WrittenTextIsGetCalendarText ==
  (WriteStarted /\ Unmarked(call.options)) =>
     /\ pendingWrite.data = getCalendarOf(build, call.options, now)
     /\ \A i \in 1..Len(RawEvents) :
          LET eventName == Get(RawEvents[i], "eventName")
          IN Truthy(eventName) =>
               CountLines(pendingWrite.data.s, <<"SUMMARY:">> \o eventName.s[1]) > 0

(* ----------------------------------------------------------------------- *)
\* C2: when the write succeeds the callback is invoked as
\* callback(null, resolvedPath), resolvedPath being the path the Validator
\* resolved and the write went to.
C2_SuccessCallbackGetsResolvedPath ==
  (call.op = "createCalendar" /\ pendingWrite.state = "written") =>
     cbLog = << <<NULL, pendingWrite.path>> >>

(* ----------------------------------------------------------------------- *)
\* C3: every call of createCalendar returns without throwing and, once it is
\* over, has invoked its callback exactly once (never twice meanwhile), with
\* a non-null error when the write failed.
C3_ExactlyOneCallback ==
  call.op = "createCalendar" =>
     /\ result # THROWN
     /\ Len(cbLog) <= 1
     /\ pc = "done" => Len(cbLog) = 1
     /\ pendingWrite.state = "failed" => (Len(cbLog) = 1 /\ Truthy(cbLog[1][1]))

(* ----------------------------------------------------------------------- *)
\* the path the claim C4 describes
ExpectedBaseName(fileName) ==
  IF fileName.t # "string" \/ fileName.s = EMPTY
  THEN << <<"calendar-event", ".ics">> >>
  ELSE IF fileName.s[1][Len(fileName.s[1])] = ".ics" THEN fileName.s
  ELSE << fileName.s[1] \o <<".ics">> >>

ExpectedFilePath(fileName, explicitPath) ==
  IF explicitPath.t = "string" /\ explicitPath.s # EMPTY THEN explicitPath
  ELSE Str(<< <<"/tmp", "/">> \o ExpectedBaseName(fileName)[1] >>)

\* C4: validateFilePath(fileName, explicitPath) never throws; it returns
\* explicitPath when given, else the temp directory joined with fileName
\* (with '.ics' appended unless already there) or with 'calendar-event.ics'
\* when fileName is absent.
C4_FilePathResolved ==
  call.op = "createCalendar" =>
     LET fileName == Get(call.options, "filename")
         resolved == validateFilePathOf(build, fileName, call.filePath)
     IN /\ resolved # THROWN
        /\ resolved = ExpectedFilePath(fileName, call.filePath)

(* ----------------------------------------------------------------------- *)
\* C5: every DTSTAMP, DTSTART and DTEND line of the text getCalendar returns
\* carries TZID=<the options' timeZone> when one is supplied and TZID=<the
\* host's zone> when not, also for options carrying the isValid marker.
C5_TimeLinesCarryTimeZone ==
  GotText =>
     LET timeZone == Get(call.options, "timeZone")
         expected == IF Truthy(timeZone) THEN timeZone.s[1] ELSE <<"Europe/Paris">>
     IN \A i \in 1..Len(result.s) :
          LET line == result.s[i]
          IN Kind(line) \in {"DTSTAMP", "DTSTART", "DTEND"} =>
               /\ Len(line) >= 4
               /\ SubSeq(line, 2, 4) = <<";TZID=">> \o expected \o <<":">>

CanonicalOptions == validateCalendarOptionsOf(build, call.options, UNDEF, now)

CanonicalEvents ==
  IF CanonicalOptions = THROWN THEN <<>> ELSE Get(CanonicalOptions, "events").l

EventText(event) ==
  IF build = "index" THEN formatEvent(event, CanonicalOptions).s
  ELSE formatEvent_part000(event).s

\* the lines the layout of an event block lists, by their first token
ExpectedKinds(event) ==
  <<"", "BEGIN:VEVENT", "DTSTAMP">>
    \o (IF Get(event, "organizer") # Bool(FALSE) THEN <<"ORGANIZER;CN=">> ELSE <<>>)
    \o [i \in 1..Len(Get(event, "attendees").l) |-> "ATTENDEE;CN=\""]
    \o <<"DTSTART", "DTEND">>
    \o (IF Get(event, "location") # Bool(FALSE) THEN <<"LOCATION:">> ELSE <<>>)
    \o <<"DESCRIPTION:", "SUMMARY:", "END:VEVENT">>

\* C7 as stated: the text of every canonical event is, line for line, the
\* empty line, BEGIN:VEVENT, DTSTAMP, ORGANIZER iff present, one ATTENDEE per
\* attendee, DTSTART, DTEND, LOCATION iff present, DESCRIPTION, SUMMARY,
\* END:VEVENT, every property being exactly one line.
C7_OneLinePerProperty ==
  (GotText /\ Unmarked(call.options)) =>
     \A i \in 1..Len(CanonicalEvents) :
        Kinds(EventText(CanonicalEvents[i])) = ExpectedKinds(CanonicalEvents[i])

\* C7 amended: the properties come in that order, and each is one line unless
\* its value holds line breaks: the description, inserted verbatim, takes as
\* many lines as it has, and SUMMARY and END:VEVENT follow it.
C7_PropertyOrder ==
  (GotText /\ Unmarked(call.options)) =>
     \A i \in 1..Len(CanonicalEvents) :
        LET event == CanonicalEvents[i]
            kinds == Kinds(EventText(event))
            expected == ExpectedKinds(event)
            n == Len(expected)
            d == Len(Get(event, "description").s)
        IN /\ Len(kinds) = n + d - 1
           /\ SubSeq(kinds, 1, n - 2) = SubSeq(expected, 1, n - 2)
           /\ SubSeq(kinds, n + d - 2, n + d - 1) = <<"SUMMARY:", "END:VEVENT">>
           /\ EventText(event)[n - 2] =
                <<"DESCRIPTION:">> \o Get(event, "description").s[1]

\* an event with organizer, attendees, location and a two-line description
\* has been formatted
C7_Witness ==
  /\ GotText /\ Unmarked(call.options)
  /\ \E i \in 1..Len(CanonicalEvents) :
       LET event == CanonicalEvents[i]
       IN /\ Get(event, "organizer") # Bool(FALSE)
          /\ Get(event, "location") # Bool(FALSE)
          /\ Len(Get(event, "attendees").l) > 0
          /\ Len(Get(event, "description").s) = 2
          /\ Len(EventText(event)) = 12

(* ----------------------------------------------------------------------- *)
\* a person as C8 accepts one: a non-empty name and a non-empty email
HasNameAndEmail(p) ==
  /\ p.t = "object"
  /\ "name" \in DOMAIN p.f /\ p.f.name.t = "string" /\ p.f.name.s # EMPTY
  /\ "email" \in DOMAIN p.f /\ p.f.email.t = "string" /\ p.f.email.s # EMPTY

SuppliedRsvp(p) ==
  IF "rsvp" \in DOMAIN p.f /\ p.f.rsvp.t = "boolean" THEN p.f.rsvp.b ELSE FALSE

\* the index in list of its j-th acceptable entry
NthValid(list, j) ==
  CHOOSE i \in 1..Len(list) :
    /\ HasNameAndEmail(list[i])
    /\ Cardinality({k \in 1..i : HasNameAndEmail(list[k])}) = j

ExpectedAttendeeLine(p) ==
  <<"ATTENDEE;CN=\"">> \o p.f.name.s[1]
    \o <<"\";RSVP=", IF SuppliedRsvp(p) THEN "true" ELSE "false", ":MAILTO:">>
    \o p.f.email.s[1]

IsAttendeesCase(i) ==
  /\ RawEvents[i].t = "object"
  /\ Get(RawEvents[i], "attendees").t = "array"

\* C8: validateAttendees keeps exactly the entries with a non-empty name and
\* a non-empty email, in order and with duplicates, each with its name, its
\* email and the supplied rsvp (false when absent); the formatted event has
\* one ATTENDEE line for each of them, in that order, and no other.
C8_AttendeesFiltered ==
  call.op = "getCalendar" =>
     \A i \in 1..Len(RawEvents) :
        IsAttendeesCase(i) =>
          LET list == Get(RawEvents[i], "attendees").l
              out == validateAttendees(List(list)).l
              nValid == Cardinality({k \in 1..Len(list) : HasNameAndEmail(list[k])})
              text == formatEvent(validateEventOptions(RawEvents[i], now),
                                  Obj([timeZone |-> guessedTimezone])).s
              lines == SelectSeq(text, LAMBDA l : Kind(l) = "ATTENDEE;CN=\"")
          IN /\ Len(out) = nValid
             /\ Len(lines) = nValid
             /\ \A j \in 1..nValid :
                  LET p == list[NthValid(list, j)]
                  IN /\ out[j] = Obj([email |-> p.f.email, name |-> p.f.name,
                                      rsvp |-> Bool(SuppliedRsvp(p))])
                     /\ lines[j] = ExpectedAttendeeLine(p)

\* a list with an acceptable entry twice and an entry to drop has been
\* validated and formatted
C8_Witness ==
  /\ GotText
  /\ \E i \in 1..Len(RawEvents) :
       /\ IsAttendeesCase(i)
       /\ LET list == Get(RawEvents[i], "attendees").l
          IN /\ Len(list) = 2
             /\ \E k \in 1..2 : ~HasNameAndEmail(list[k])
             /\ \E k \in 1..2 : HasNameAndEmail(list[k]) /\ SuppliedRsvp(list[k])
       /\ CountLines(result.s, ExpectedAttendeeLine(PersonC)) = 1

(* ----------------------------------------------------------------------- *)
\* clock instant h (UTC) as the host's wall clock in YYYYMMDDTHHmmss form
CanonicalStamp(h) == <<"20200101T", HH[h + Host.hours + 1], "0000">>

AllAbsent(event) ==
  event.t = "object" /\ \A k \in DOMAIN event.f : event.f[k] = UNDEF

DefaultDocument(h) ==
  << <<"BEGIN:VCALENDAR">>, <<"VERSION:2.0">>, <<>>, <<"BEGIN:VEVENT">>,
     <<"DTSTAMP", ";TZID=", "Europe/Paris", ":">> \o CanonicalStamp(h),
     <<"DTSTART", ";TZID=", "Europe/Paris", ":">> \o CanonicalStamp(h),
     <<"DTEND", ";TZID=", "Europe/Paris", ":">> \o CanonicalStamp(h + 1),
     <<"DESCRIPTION:">>, <<"SUMMARY:", "New Event">>, <<"END:VEVENT">>,
     <<"END:VCALENDAR">> >>

NoOptions == RawOptions(UNDEF, UNDEF, UNDEF, UNDEF, UNDEF)

\* C9: a raw event with every field absent validates, at clock instant T, to
\* dtstamp T, dtstart T, dtend T plus one hour, summary 'New Event', an empty
\* description, no location, no organizer and no attendee; getCalendar({})
\* is the document of that one block: DESCRIPTION: empty, SUMMARY:New Event,
\* no LOCATION, ORGANIZER or ATTENDEE line.
C9_DefaultEvent ==
  (call.op = "getCalendar" /\ pc = "done") =>
     /\ \A i \in 1..Len(RawEvents) :
          AllAbsent(RawEvents[i]) =>
            validateEventOptions(RawEvents[i], now) =
              Obj([dtstamp |-> Str(<<CanonicalStamp(now)>>),
                   organizer |-> Bool(FALSE),
                   dtstart |-> Str(<<CanonicalStamp(now)>>),
                   dtend |-> Str(<<CanonicalStamp(now + 1)>>),
                   summary |-> Str(T("New Event")),
                   description |-> Str(EMPTY),
                   location |-> Bool(FALSE),
                   attendees |-> List(<<>>)])
     /\ call.options = NoOptions => result = Str(DefaultDocument(now))

\* getCalendar({}) has returned, and an all-absent event has been validated,
\* after the clock moved
C9_Witness ==
  /\ GotText /\ now > 0
  /\ \/ call.options = NoOptions
     \/ \E i \in 1..Len(RawEvents) : AllAbsent(RawEvents[i])

(* ----------------------------------------------------------------------- *)
\* C10: validation never raises: validateCalendarOptions and getCalendar
\* return a value for every raw options object, whatever is absent, null or
\* misshapen in it.
C10_ValidationNeverRaises ==
  /\ call.op # "none" =>
       validateCalendarOptionsOf(build, call.options, call.filePath, now) # THROWN
  /\ (call.op = "getCalendar" /\ pc = "done") => result # THROWN

=============================================================================
